---- MODULE Spec2Model ----
(***************************************************************************)
(* Model of MisInfomation.py: the model store (load_or_create_model), the  *)
(* decision policy (predict), the scraper's text clean-up and the          *)
(* analyze / scrape / classify flow of MisinformationApp.                  *)
(***************************************************************************)
EXTENDS Integers, Sequences, FiniteSets, TLC

\* ------------------------------------------------------------------ bounds
NumProcs == 2   \* processes (start-ups of the program) sharing one working directory
MaxStarts == 2  \* times one process slot may be started
ProbScale == 10 \* classifier probabilities are the fractions k / ProbScale
MaxRuns == 3    \* runs of equal characters in a raw text
MaxGap == 3     \* longest run of one whitespace character in a raw text

\* ------------------------------------------------------- program constants
Cap == 5000         \* len(text) > 5000, text[:5000]
SepLen == 2         \* len("  "), the separator of line.split("  ")
MarkerLen == 3      \* len("...")

Procs == 1..NumProcs
App == 1            \* the process whose window is modelled

VARIABLES
  \* the working directory
  artifact,    \* content of misinformation_model.pkl
  readable,    \* open(model_file, 'rb') is permitted
  writable,    \* open(model_file, 'wb') is permitted
  \* one MisinformationDetector construction per process
  pc, pipeline, trained, saveError, loadSaw, starts, trainCount,
  \* the window of process App
  analyzeEnabled, progressVisible, scraper, analysis, signals, resultDisplay, appAborted,
  \* the scraper's clean-up applied to a raw text, then to its own output
  nStep, nRaw, nOnce, nTwice

storeVars == <<artifact, readable, writable, pc, pipeline, trained, saveError, loadSaw,
               starts, trainCount>>
guiVars == <<analyzeEnabled, progressVisible, scraper, analysis, signals, resultDisplay,
             appAborted>>
normVars == <<nStep, nRaw, nOnce, nTwice>>
vars == <<storeVars, guiVars, normVars>>

\* ------------------------------------------------------------ model store

\* What the file can hold: nothing, the pickled fitted pipeline, a file cut short
\* by an unfinished write, bytes that are no pickle, or a well-formed pickle
\* that is not the fitted pipeline (another object, altered parameters).
ArtifactStates == {"absent", "valid", "halfwritten", "corrupt", "garbage"}

\* os.path.exists(model_file)
path_exists(a) == a # "absent"

\* with open(model_file, 'rb') as f: self.pipeline = pickle.load(f)
\* the object installed, or "raise" when open or pickle.load raises.
pickle_load(a, rd) ==
  IF ~rd \/ a = "absent" THEN "raise"
  ELSE IF a = "valid" THEN "fitted"
  ELSE IF a = "garbage" THEN "garbage"
  ELSE "raise"


\* MisinformationDetector.__init__: the three attributes are None, then
\* load_or_create_model is entered.
Detector_init(p) ==
  /\ pc[p] = "off"
  /\ starts[p] < MaxStarts
  /\ starts' = [starts EXCEPT ![p] = @ + 1]
  /\ pc' = [pc EXCEPT ![p] = "exists"]
  /\ pipeline' = [pipeline EXCEPT ![p] = "None"]
  /\ trained' = [trained EXCEPT ![p] = FALSE]
  /\ saveError' = [saveError EXCEPT ![p] = FALSE]
  /\ loadSaw' = [loadSaw EXCEPT ![p] = "nothing"]
  /\ UNCHANGED <<artifact, readable, writable, trainCount>>

\* if os.path.exists(model_file):
load_exists(p) ==
  /\ pc[p] = "exists"
  /\ pc' = [pc EXCEPT ![p] = IF path_exists(artifact) THEN "load" ELSE "fit"]
  /\ loadSaw' = [loadSaw EXCEPT ![p] = IF path_exists(artifact) THEN @ ELSE "absent"]
  /\ UNCHANGED <<artifact, readable, writable, pipeline, trained, saveError, starts,
                 trainCount>>

\* load_pickle without the return after a successful load: falls through to
\* training.
load_pickle_no_return(p) ==
  /\ pc[p] = "load"
  /\ loadSaw' = [loadSaw EXCEPT ![p] = IF readable THEN artifact ELSE "unreadable"]
  /\ pc' = [pc EXCEPT ![p] = "fit"]
  /\ pipeline' = [pipeline EXCEPT ![p] =
                    IF pickle_load(artifact, readable) = "raise" THEN @
                    ELSE pickle_load(artifact, readable)]
  /\ UNCHANGED <<artifact, readable, writable, trained, saveError, starts, trainCount>>

\* try: open, pickle.load, return / except: fall through to training.
\* Whatever pickle.load returns is installed as self.pipeline.
load_pickle(p) ==
  /\ pc[p] = "load"
  /\ loadSaw' = [loadSaw EXCEPT ![p] = IF readable THEN artifact ELSE "unreadable"]
  /\ IF pickle_load(artifact, readable) = "raise"
       THEN /\ pc' = [pc EXCEPT ![p] = "fit"]
            /\ UNCHANGED pipeline
       ELSE /\ pc' = [pc EXCEPT ![p] = "ready"]
            /\ pipeline' = [pipeline EXCEPT ![p] = pickle_load(artifact, readable)]
  /\ UNCHANGED <<artifact, readable, writable, trained, saveError, starts, trainCount>>

\* self.pipeline = Pipeline([...]); self.pipeline.fit(training_texts, training_labels)
fit_pipeline(p) ==
  /\ pc[p] = "fit"
  /\ pipeline' = [pipeline EXCEPT ![p] = "fitted"]
  /\ trained' = [trained EXCEPT ![p] = TRUE]
  /\ trainCount' = trainCount + 1
  /\ pc' = [pc EXCEPT ![p] = "save_open"]
  /\ UNCHANGED <<artifact, readable, writable, saveError, loadSaw, starts>>

\* with open(model_file, 'wb') as f: mode 'wb' truncates the file in place. When
\* the open is refused the exception leaves load_or_create_model, __init__ and
\* MisinformationApp.__init__: nothing catches it.
save_open(p) ==
  /\ pc[p] = "save_open"
  /\ IF writable
       THEN /\ artifact' = "halfwritten"
            /\ pc' = [pc EXCEPT ![p] = "save_dump"]
            /\ UNCHANGED saveError
       ELSE /\ saveError' = [saveError EXCEPT ![p] = TRUE]
            /\ pc' = [pc EXCEPT ![p] = "crashed"]
            /\ UNCHANGED artifact
  /\ UNCHANGED <<readable, writable, pipeline, trained, loadSaw, starts, trainCount>>

\* pickle.dump(self.pipeline, f), the file is closed, load_or_create_model returns.
save_dump(p) ==
  /\ pc[p] = "save_dump"
  /\ artifact' = "valid"
  /\ pc' = [pc EXCEPT ![p] = "ready"]
  /\ UNCHANGED <<readable, writable, pipeline, trained, saveError, loadSaw, starts,
                 trainCount>>

\* The process ends: the window is closed, the unhandled exception has ended
\* it, or it is killed at any point (also between open and the end of dump).
ProcessStop(p) ==
  /\ pc[p] # "off"
  /\ pc' = [pc EXCEPT ![p] = "off"]
  /\ pipeline' = [pipeline EXCEPT ![p] = "None"]
  /\ UNCHANGED <<artifact, readable, writable, trained, saveError, loadSaw, starts,
                 trainCount>>

InitStore ==
  /\ artifact \in ArtifactStates \ {"halfwritten"}
  /\ readable \in BOOLEAN
  /\ writable \in BOOLEAN
  /\ (artifact = "absent" => readable)
  /\ pc = [p \in Procs |-> "off"]
  /\ pipeline = [p \in Procs |-> "None"]
  /\ trained = [p \in Procs |-> FALSE]
  /\ saveError = [p \in Procs |-> FALSE]
  /\ loadSaw = [p \in Procs |-> "nothing"]
  /\ starts = [p \in Procs |-> 0]
  /\ trainCount = 0

\* ------------------------------------------------------------------ texts

\* A text (a Python str) is held run-length encoded: a sequence of runs
\* <<c, n>>, n >= 1 consecutive characters c, neighbouring runs differing in c.
\* Characters: a letter, a space, a line break, a tab; "." only in the marker.
Letters == {"a"}
Spaces == {" ", "\n", "\t"}
Run(c, n) == <<c, n>>
Ch(r) == r[1]
Cnt(r) == r[2]
IsSpace(c) == c \in Spaces
Marker == <<Run(".", MarkerLen)>>   \* "..."

\* len(text)
RECURSIVE text_len(_)
text_len(t) == IF t = <<>> THEN 0 ELSE Cnt(Head(t)) + text_len(Tail(t))

\* t + u
cat(t, u) ==
  IF t = <<>> THEN u
  ELSE IF u = <<>> THEN t
  ELSE IF Ch(t[Len(t)]) = Ch(Head(u))
    THEN SubSeq(t, 1, Len(t) - 1)
           \o <<Run(Ch(Head(u)), Cnt(t[Len(t)]) + Cnt(Head(u)))>> \o Tail(u)
    ELSE t \o u

\* text[:k]
RECURSIVE prefix(_, _)
prefix(t, k) ==
  IF k <= 0 \/ t = <<>> THEN <<>>
  ELSE IF Cnt(Head(t)) >= k THEN <<Run(Ch(Head(t)), k)>>
  ELSE <<Head(t)>> \o prefix(Tail(t), k - Cnt(Head(t)))

\* str.strip(): leading and trailing whitespace removed. lead and trail are
\* the numbers of whitespace runs at the two ends.
strip(t) ==
  IF \A i \in 1..Len(t) : IsSpace(Ch(t[i])) THEN <<>>
  ELSE LET n == Len(t)
           lead == CHOOSE k \in 0..(n - 1) :
                     ~IsSpace(Ch(t[k + 1])) /\ \A j \in 1..k : IsSpace(Ch(t[j]))
           trail == CHOOSE k \in 0..(n - 1) :
                      ~IsSpace(Ch(t[n - k])) /\ \A j \in 1..k : IsSpace(Ch(t[n + 1 - j]))
       IN SubSeq(t, lead + 1, n - trail)

\* The text after the first sep characters of run i of t.
AfterCut(t, i, sep) ==
  (IF Cnt(t[i]) > sep THEN <<Run(Ch(t[i]), Cnt(t[i]) - sep)>> ELSE <<>>)
    \o SubSeq(t, i + 1, Len(t))

\* str.splitlines(): the lines between line breaks, no empty last line.
RECURSIVE splitlines(_)
splitlines(t) ==
  IF t = <<>> THEN <<>>
  ELSE IF \A i \in 1..Len(t) : Ch(t[i]) # "\n" THEN <<t>>
  ELSE LET i == CHOOSE k \in 1..Len(t) :
                  Ch(t[k]) = "\n" /\ \A j \in 1..(k - 1) : Ch(t[j]) # "\n"
       IN <<SubSeq(t, 1, i - 1)>> \o splitlines(AfterCut(t, i, 1))

\* line.split("  "): cut at each two-space separator, scanning left to right.
\* The leftmost separator is the start of the first run of two or more spaces.
IsSep(r) == Ch(r) = " " /\ Cnt(r) >= SepLen
RECURSIVE split_phrases(_)
split_phrases(t) ==
  IF \A k \in 1..Len(t) : ~IsSep(t[k]) THEN <<t>>
  ELSE LET i == CHOOSE k \in 1..Len(t) :
                  IsSep(t[k]) /\ \A j \in 1..(k - 1) : ~IsSep(t[j])
       IN <<SubSeq(t, 1, i - 1)>> \o split_phrases(AfterCut(t, i, SepLen))

\* ------------------------------------------------- the scraper's clean-up

\* line_chunks with the phrases left unstripped.
line_chunks_unstripped(line) == split_phrases(line)

\* (phrase.strip() ... for phrase in line.split("  ")) for one stripped line
line_chunks(line) ==
  LET ph == split_phrases(line) IN [k \in 1..Len(ph) |-> strip(ph[k])]

\* chunks = (phrase.strip() for line in lines for phrase in line.split("  ")),
\* lines = (line.strip() for line in text.splitlines())
RECURSIVE chunks_of(_)
chunks_of(lines) ==
  IF lines = <<>> THEN <<>>
  ELSE line_chunks(strip(Head(lines))) \o chunks_of(Tail(lines))

\* ' '.join(chunk for chunk in chunks if chunk)
RECURSIVE join_chunks(_)
join_chunks(chunks) ==
  IF chunks = <<>> THEN <<>>
  ELSE LET rest == join_chunks(Tail(chunks))
       IN IF Head(chunks) = <<>> THEN rest
          ELSE IF rest = <<>> THEN Head(chunks)
          ELSE cat(cat(Head(chunks), <<Run(" ", 1)>>), rest)

\* "Clean up text"
clean_text(text) == join_chunks(chunks_of(splitlines(text)))

\* "Limit text length for processing":
\* if len(text) > 5000: text = text[:5000] + "..."
limit_length(text) ==
  IF text_len(text) > Cap THEN cat(prefix(text, Cap), Marker) ELSE text

\* The text WebScraperThread.run emits for the page text it extracted.
scraped_text(text) == limit_length(clean_text(text))

\* ------------------------------------------------------- decision policy

\* A probability is the fraction n / d.
Frac(n, d) == [n |-> n, d |-> d]
Gt(p, q) == p.n * q.d > q.n * p.d
Le(p, q) == ~Gt(p, q)

HIGH == "HIGH RISK - Likely Misinformation"
MODERATE == "MODERATE RISK - Requires Verification"
LOW == "LOW RISK - Appears Reliable"
NO_CONTENT == "No content to analyze"

HighThreshold == Frac(7, 10)      \* misinformation_prob > 0.7
ModerateThreshold == Frac(4, 10)  \* misinformation_prob > 0.4
NoContentProb == Frac(1, 2)       \* return 0.5, "No content to analyze"

\* What predict_proba(...)[0][1] can return: the fractions k / ProbScale.
ClassifierProbs == {Frac(k, ProbScale) : k \in 0..ProbScale}

\* risk_result with >= for > at the upper threshold.
risk_result_ge(prob) ==
  IF ~Gt(HighThreshold, prob) THEN HIGH
  ELSE IF Gt(prob, ModerateThreshold) THEN MODERATE
  ELSE LOW

\* risk_result with the labels of the two upper branches exchanged.
risk_result_swapped(prob) ==
  IF Gt(prob, HighThreshold) THEN MODERATE
  ELSE IF Gt(prob, ModerateThreshold) THEN HIGH
  ELSE LOW

\* "Determine result": the if / elif / else on misinformation_prob.
risk_result(prob) ==
  IF Gt(prob, HighThreshold) THEN HIGH
  ELSE IF Gt(prob, ModerateThreshold) THEN MODERATE
  ELSE LOW

\* predict without the test for empty text.
predict_always_classifies(text, prob) ==
  [invoked |-> TRUE, prob |-> prob, result |-> risk_result(prob)]

\* MisinformationDetector.predict(text), prob being what predict_proba returns
\* when it is reached. invoked: whether self.pipeline.predict_proba was called.
predict(text, prob) ==
  IF strip(text) = <<>>
    THEN [invoked |-> FALSE, prob |-> NoContentProb, result |-> NO_CONTENT]
    ELSE [invoked |-> TRUE, prob |-> prob, result |-> risk_result(prob)]

\* ------------------------------------------------------------- the window

Signal(sig, text, prob, result) ==
  [sig |-> sig, text |-> text, prob |-> prob, result |-> result]

\* QThread signals are delivered to the window through the event queue.
HeadIs(sig) == signals # <<>> /\ Head(signals).sig = sig

WindowUp == pc[App] = "ready" /\ ~appAborted

\* on_content_ready(content): the analysis thread is created and started.
StartAnalysis(content) ==
  analysis' = [state |-> "running", content |-> content, invoked |-> FALSE]

\* analyze_content, the Analyze button's clicked slot (a disabled button does
\* not emit clicked). input is input_text.toPlainText(), url is url_radio.isChecked().
analyze_content(input, url) ==
  /\ WindowUp
  /\ analyzeEnabled
  /\ LET input_text == strip(input) IN
     IF input_text = <<>>
       THEN UNCHANGED guiVars     \* QMessageBox.warning, return
       ELSE /\ analyzeEnabled' = FALSE
            /\ progressVisible' = TRUE
            /\ IF url
                 THEN /\ scraper' = "running"
                      /\ UNCHANGED analysis
                 ELSE /\ StartAnalysis(input_text)
                      /\ UNCHANGED scraper
            /\ UNCHANGED <<signals, resultDisplay, appAborted>>
  /\ UNCHANGED <<storeVars, normVars>>

\* WebScraperThread.run, the request succeeded: page is soup.get_text().
scraper_run(page) ==
  /\ WindowUp
  /\ scraper = "running"
  /\ scraper' = "finished"
  /\ signals' = Append(signals,
                       Signal("content_ready", scraped_text(page), NoContentProb, ""))
  /\ UNCHANGED <<analyzeEnabled, progressVisible, analysis, resultDisplay, appAborted>>
  /\ UNCHANGED <<storeVars, normVars>>

\* WebScraperThread.run, requests.RequestException or any other Exception.
scraper_run_error ==
  /\ WindowUp
  /\ scraper = "running"
  /\ scraper' = "finished"
  /\ signals' = Append(signals, Signal("error_occurred", <<>>, NoContentProb, ""))
  /\ UNCHANGED <<analyzeEnabled, progressVisible, analysis, resultDisplay, appAborted>>
  /\ UNCHANGED <<storeVars, normVars>>

\* on_content_ready as the slot of content_ready.
on_content_ready ==
  /\ WindowUp
  /\ HeadIs("content_ready")
  /\ StartAnalysis(Head(signals).text)
  /\ signals' = Tail(signals)
  /\ UNCHANGED <<analyzeEnabled, progressVisible, scraper, resultDisplay, appAborted>>
  /\ UNCHANGED <<storeVars, normVars>>

\* AnalysisThread.run: predict returns and analysis_complete is emitted.
\* predict_proba returns only from a pipeline object that has the method: the
\* fitted pipeline, or a loaded object with altered parameters.
analysis_run(prob) ==
  /\ WindowUp
  /\ analysis.state = "running"
  /\ LET r == predict(analysis.content, prob) IN
       /\ analysis' = [analysis EXCEPT !.state = "finished", !.invoked = r.invoked]
       /\ signals' = Append(signals, Signal("analysis_complete", <<>>, r.prob, r.result))
  /\ UNCHANGED <<analyzeEnabled, progressVisible, scraper, resultDisplay, appAborted>>
  /\ UNCHANGED <<storeVars, normVars>>

\* AnalysisThread.run: predict_proba raises on a loaded object that is no fitted
\* pipeline. run has no try: nothing is emitted. Depending on the PyQt5 version
\* the unhandled exception ends the thread only, or aborts the application.
analysis_run_raises ==
  /\ WindowUp
  /\ analysis.state = "running"
  /\ strip(analysis.content) # <<>>
  /\ pipeline[App] # "fitted"
  /\ analysis' = [analysis EXCEPT !.state = "raised", !.invoked = TRUE]
  /\ appAborted' \in BOOLEAN
  /\ UNCHANGED <<analyzeEnabled, progressVisible, scraper, signals, resultDisplay>>
  /\ UNCHANGED <<storeVars, normVars>>

on_analysis_complete ==
  /\ WindowUp
  /\ HeadIs("analysis_complete")
  /\ progressVisible' = FALSE
  /\ analyzeEnabled' = TRUE
  /\ resultDisplay' = [shown |-> TRUE, prob |-> Head(signals).prob,
                       result |-> Head(signals).result]
  /\ signals' = Tail(signals)
  /\ UNCHANGED <<scraper, analysis, appAborted>>
  /\ UNCHANGED <<storeVars, normVars>>

on_scraper_error ==
  /\ WindowUp
  /\ HeadIs("error_occurred")
  /\ progressVisible' = FALSE
  /\ analyzeEnabled' = TRUE
  /\ signals' = Tail(signals)
  /\ UNCHANGED <<scraper, analysis, resultDisplay, appAborted>>
  /\ UNCHANGED <<storeVars, normVars>>

\* clear_all: "No analysis performed yet."
clear_all ==
  /\ WindowUp
  /\ resultDisplay' = [shown |-> FALSE, prob |-> NoContentProb, result |-> ""]
  /\ UNCHANGED <<analyzeEnabled, progressVisible, scraper, analysis, signals, appAborted>>
  /\ UNCHANGED <<storeVars, normVars>>

\* ------------------------------------------------- idle values of the rest
GuiIdle ==
  /\ analyzeEnabled = TRUE
  /\ progressVisible = FALSE
  /\ scraper = "none"
  /\ analysis = [state |-> "none", content |-> <<>>, invoked |-> FALSE]
  /\ signals = <<>>
  /\ resultDisplay = [shown |-> FALSE, prob |-> NoContentProb, result |-> ""]
  /\ appAborted = FALSE

NormIdle ==
  /\ nStep = 0
  /\ nRaw = <<>>
  /\ nOnce = <<>>
  /\ nTwice = <<>>

\* ----------------------------------------------- start-ups sharing the file
Init == InitStore /\ GuiIdle /\ NormIdle

Next ==
  \E p \in Procs :
    \/ Detector_init(p) /\ UNCHANGED <<guiVars, normVars>>
    \/ load_exists(p) /\ UNCHANGED <<guiVars, normVars>>
    \/ load_pickle(p) /\ UNCHANGED <<guiVars, normVars>>
    \/ fit_pipeline(p) /\ UNCHANGED <<guiVars, normVars>>
    \/ save_open(p) /\ UNCHANGED <<guiVars, normVars>>
    \/ save_dump(p) /\ UNCHANGED <<guiVars, normVars>>
    \/ ProcessStop(p) /\ UNCHANGED <<guiVars, normVars>>

Spec == Init /\ [][Next]_vars

\* ----------------------------------------------------------- input texts

\* The raw texts drawn: at most MaxRuns runs; a run of letters is short or
\* reaches the cap, a run of one whitespace character is at most MaxGap long.
LetterCounts == {1, 2, Cap - 1, Cap, Cap + 1}
Runs ==
  { Run(c, n) : c \in Letters, n \in LetterCounts }
    \cup { Run(c, n) : c \in Spaces, n \in 1..MaxGap }
RawTexts ==
  { t \in UNION { [1..k -> Runs] : k \in 0..MaxRuns } :
      \A i \in 1..(Len(t) - 1) : Ch(t[i]) # Ch(t[i + 1]) }

\* What the user types or pastes, and what a fetched page's text can be.
AppTexts ==
  { <<>>,
    <<Run(" ", 1), Run("\n", 1)>>,
    <<Run("a", 1)>>,
    <<Run(" ", 1), Run("a", 1), Run(" ", 2), Run("a", 1), Run("\n", 1), Run("a", 2)>>,
    <<Run("a", Cap)>>,
    <<Run("a", Cap + 1)>>,
    <<Run("a", Cap - 1), Run(" ", 2), Run("a", 2), Run("\n", 1), Run("a", 1)>> }

\* --------------------------------------------- one run of the application

NextApp ==
  \/ Detector_init(App) /\ UNCHANGED <<guiVars, normVars>>
  \/ load_exists(App) /\ UNCHANGED <<guiVars, normVars>>
  \/ load_pickle(App) /\ UNCHANGED <<guiVars, normVars>>
  \/ fit_pipeline(App) /\ UNCHANGED <<guiVars, normVars>>
  \/ save_open(App) /\ UNCHANGED <<guiVars, normVars>>
  \/ save_dump(App) /\ UNCHANGED <<guiVars, normVars>>
  \/ \E input \in AppTexts, url \in BOOLEAN : analyze_content(input, url)
  \/ \E page \in AppTexts : scraper_run(page)
  \/ scraper_run_error
  \/ on_content_ready
  \/ \E prob \in ClassifierProbs : analysis_run(prob)
  \/ analysis_run_raises
  \/ on_analysis_complete
  \/ on_scraper_error
  \/ clear_all

\* The application is started once: process App alone.
SpecApp == Init /\ [][NextApp]_vars

\* ------------------------------------- the clean-up applied once and twice

StoreOff ==
  /\ artifact = "absent"
  /\ readable = TRUE
  /\ writable = TRUE
  /\ pc = [p \in Procs |-> "off"]
  /\ pipeline = [p \in Procs |-> "None"]
  /\ trained = [p \in Procs |-> FALSE]
  /\ saveError = [p \in Procs |-> FALSE]
  /\ loadSaw = [p \in Procs |-> "nothing"]
  /\ starts = [p \in Procs |-> 0]
  /\ trainCount = 0

InitNorm ==
  /\ StoreOff
  /\ GuiIdle
  /\ nStep = 0
  /\ nRaw \in RawTexts
  /\ nOnce = <<>>
  /\ nTwice = <<>>

\* The scraper's clean-up of a page text.
NormalizeOnce ==
  /\ nStep = 0
  /\ nOnce' = scraped_text(nRaw)
  /\ nStep' = 1
  /\ UNCHANGED <<nRaw, nTwice, storeVars, guiVars>>

\* The same clean-up of its own output.
NormalizeAgain ==
  /\ nStep = 1
  /\ nTwice' = scraped_text(nOnce)
  /\ nStep' = 2
  /\ UNCHANGED <<nRaw, nOnce, storeVars, guiVars>>

NextNorm == NormalizeOnce \/ NormalizeAgain

SpecNorm == InitNorm /\ [][NextNorm]_vars

\* ================================================================== claims

Rank(result) == IF result = HIGH THEN 3 ELSE IF result = MODERATE THEN 2 ELSE 1

\* The (probability, result) pairs the classifier branch of predict produced
\* that the window holds: the one displayed and the ones still queued.
Classified ==
  { [prob |-> signals[i].prob, result |-> signals[i].result] :
      i \in { j \in 1..Len(signals) : /\ signals[j].sig = "analysis_complete"
                                      /\ signals[j].result # NO_CONTENT } }
    \cup { [prob |-> resultDisplay.prob, result |-> resultDisplay.result] :
             x \in { y \in {1} : resultDisplay.shown /\ resultDisplay.result # NO_CONTENT } }

\* C1: for every probability p the classifier returns for non-empty text, the
\* result is HIGH when p > 0.7, MODERATE when 0.4 < p <= 0.7 and LOW when
\* p <= 0.4; p = 0.7 gives MODERATE and p = 0.4 gives LOW.
C1_TierThresholds ==
  \A r \in Classified :
    /\ 10 * r.prob.n > 7 * r.prob.d => r.result = HIGH
    /\ (10 * r.prob.n > 4 * r.prob.d /\ 10 * r.prob.n <= 7 * r.prob.d) => r.result = MODERATE
    /\ 10 * r.prob.n <= 4 * r.prob.d => r.result = LOW

\* C1 witness: 0.7 is displayed as MODERATE while 0.4 is queued as LOW.
C1_Witness ==
  /\ resultDisplay.shown
  /\ 10 * resultDisplay.prob.n = 7 * resultDisplay.prob.d
  /\ resultDisplay.result = MODERATE
  /\ HeadIs("analysis_complete")
  /\ 10 * Head(signals).prob.n = 4 * Head(signals).prob.d
  /\ Head(signals).result = LOW

\* C2: for empty or whitespace-only text predict returns 0.5 with the
\* no-content result and never calls predict_proba, whatever pipeline is
\* installed: the analysis thread given such text never raises, finishes
\* without having invoked the classifier, and what it emitted and what is
\* displayed from it is (0.5, no content), never a risk tier.
C2_NoContent ==
  (analysis.state \in {"finished", "raised"} /\ strip(analysis.content) = <<>>) =>
    /\ analysis.state = "finished"
    /\ ~analysis.invoked
    /\ \A i \in 1..Len(signals) :
         signals[i].sig = "analysis_complete" =>
           /\ 2 * signals[i].prob.n = signals[i].prob.d
           /\ signals[i].result = NO_CONTENT
    /\ (signals = <<>> /\ resultDisplay.shown) =>
         /\ 2 * resultDisplay.prob.n = resultDisplay.prob.d
         /\ resultDisplay.result = NO_CONTENT

\* C2 witness: a page without text was analysed by a window whose installed
\* pipeline is not a fitted one, and the no-content result is displayed.
C2_Witness ==
  /\ pipeline[App] = "garbage"
  /\ analysis.state = "finished"
  /\ analysis.content = <<>>
  /\ ~analysis.invoked
  /\ resultDisplay.shown
  /\ resultDisplay.result = NO_CONTENT

\* C3: a start-up that finds no artifact trains, and completing the save leaves
\* the complete artifact on disk with the fitted pipeline installed; a start-up
\* that reads the complete artifact installs it and does not train: training
\* is only ever run by a start-up that did not read a complete artifact.
C3_ColdStartThenLoad ==
  /\ [](\A p \in Procs : pc[p] = "ready" =>
          /\ loadSaw[p] = "absent" =>
               trained[p] /\ pipeline[p] = "fitted" /\ ~saveError[p]
          /\ loadSaw[p] = "valid" => ~trained[p] /\ pipeline[p] = "fitted")
  /\ [][ /\ \A p \in Procs :
              (pc[p] = "save_dump" /\ pc'[p] = "ready") => artifact' = "valid"
         /\ \A p \in Procs :
              (trained'[p] /\ ~trained[p]) => loadSaw[p] # "valid"
         /\ trainCount' # trainCount =>
              \E p \in Procs : pc[p] = "fit" /\ loadSaw[p] # "valid" ]_vars

\* C3 witness: one start-up found no artifact and trained, a later one loaded
\* the artifact it saved, and training has run exactly once.
C3_Witness ==
  \E p, q \in Procs :
    /\ loadSaw[q] = "absent" /\ trained[q]
    /\ pc[p] = "ready" /\ loadSaw[p] = "valid" /\ ~trained[p] /\ pipeline[p] = "fitted"
    /\ trainCount = 1

\* C4: whatever the artifact holds at start-up, the pipeline installed when
\* load_or_create_model returns is a fitted pipeline.
C4_InstalledPipelineIsFitted ==
  \A p \in Procs : pc[p] = "ready" => pipeline[p] = "fitted"

\* C5: a failed save does not end construction with an unhandled error: the
\* detector is constructed with the trained pipeline installed.
C5_SaveFailureIsHandled ==
  \A p \in Procs :
    (saveError[p] /\ pc[p] # "off") => (pc[p] = "ready" /\ pipeline[p] = "fitted")

\* C6: the classifier never receives more than 5000 characters plus the
\* truncation marker, on the URL path and on the direct path.
C6_ClassifierInputCapped ==
  analysis.invoked => text_len(analysis.content) <= Cap + MarkerLen

\* C7: a start-up that reads the artifact never reads a half-written one.
C7_NoPartialWriteVisible ==
  \A p \in Procs : loadSaw[p] # "halfwritten"

\* C8: the clean-up applied to its own output returns that output.
C8_NormalizeIdempotent ==
  nStep = 2 => nTwice = nOnce

\* C8 witness: a raw text with a line break and a run of spaces, longer than
\* the cap, was cleaned, truncated with the marker, and cleaned again.
C8_Witness ==
  /\ nStep = 2
  /\ text_len(nRaw) > Cap
  /\ \E i \in 1..Len(nRaw) : Ch(nRaw[i]) = "\n"
  /\ \E i \in 1..Len(nRaw) : IsSep(nRaw[i])
  /\ text_len(nOnce) = Cap + MarkerLen
  /\ nOnce[Len(nOnce)] = Run(".", MarkerLen)

\* C9: of two classified probabilities, the larger never gets the lower tier
\* (LOW < MODERATE < HIGH).
C9_PolicyMonotone ==
  \A r1, r2 \in Classified :
    Le(r1.prob, r2.prob) => Rank(r1.result) <= Rank(r2.result)

\* C9 witness: a displayed LOW result and a queued HIGH result of a larger
\* probability.
C9_Witness ==
  \E r1, r2 \in Classified :
    /\ Gt(r2.prob, r1.prob)
    /\ r1.result = LOW
    /\ r2.result = HIGH

\* Workers of the window that will still deliver a result: a running scraper
\* or analysis thread, or an emitted signal not yet handled.
InFlight ==
  (IF scraper = "running" THEN 1 ELSE 0)
    + (IF analysis.state = "running" THEN 1 ELSE 0)
    + Len(signals)

\* C10: while the Analyze button is disabled exactly one scraper or analysis
\* thread (or its queued signal) is in flight, so that on_analysis_complete or
\* on_scraper_error will run and enable the button again; the button is
\* disabled exactly while the progress bar is shown.
C10_BusyStateEnds ==
  /\ analyzeEnabled = ~progressVisible
  /\ ~analyzeEnabled => InFlight = 1
  /\ analyzeEnabled => InFlight = 0

====
